---------------------------- MODULE Spec2Model ----------------------------
(***************************************************************************)
(* A model of luxon's logging pipeline (src/luxon/core/logger.py):         *)
(*   - MPLogger: the primary process' Collector (receive/receiver/close)   *)
(*     and the record transport (MPLoggerSocketQueue over a Pipe);         *)
(*   - configure / set_level: the per-logger sink bindings and levels;     *)
(*   - GetLogger.critical..debug and log_formatted: the level gate and     *)
(*     the message chunking / rendering.                                   *)
(* Three specifications share the module's variables: SpecCollector,       *)
(* SpecConfig and SpecEmit.  Each one moves its own group of variables and *)
(* leaves the two other groups at their initial value.                     *)
(***************************************************************************)
EXTENDS Integers, Sequences, FiniteSets, TLC

VARIABLES
    \* ---- MPLogger (primary process) and its Collector processes
    mainRunning,   \* self._running of the primary MPLogger object
    logThread,     \* self._log_thread of the primary: 0 is None, else a pid
    proc,          \* pid -> the state of the process started by receive()
    pipe,          \* records in flight on the Pipe (server end reads the head)
    broken,        \* the transport is broken / closed by the peer
    sent,          \* number of records producers have emitted so far
    wire,          \* record id -> number of times it was written to the pipe
    dispatched,    \* sequence of [pid, id]: logger.handle(record) calls
    stderr,        \* sequence of reports printed on sys.stderr
    closed,        \* close() ran and receive() was not called since
    \* ---- one logger, a thread in configure() and a thread emitting on it
    logger,        \* [name, handlers, level] of the logging.Logger object
    cfg,           \* the thread running configure(): where it is, its inputs
    emit,          \* the thread in Logger.callHandlers: its list iterator
    \* ---- the loggers' levels and the last GetLogger operation
    levels,        \* logger name -> the level set on it (NOTSET: none)
    op,            \* the last operation: an emit operation or "set_level"
    target,        \* the logger it was called on
    call,          \* the arguments of the emit operation
    eff,           \* the logger's effective level when it was called
    out,           \* the lines it handed to logger_facility, in order
    written,       \* the lines that went on to the handlers (the sinks)
    formatted,     \* log_formatted was entered
    raised,        \* the operation raised an exception to its caller
    fault,         \* what fails while the emit operation runs
    \* ---- configure() and the level setter, one call after another
    lastCall,      \* the last call: its arguments, what it found, how it ended
    \* ---- the logging state of a process that constructs an MPLogger
    loggerDict,    \* logging.Logger.manager.loggerDict: name -> what it holds
    handlersOf,    \* logger name -> the handlers list of that logger
    mp             \* the MPLogger construction and the last line emitted

collectorVars ==
    <<mainRunning, logThread, proc, pipe, broken, sent, wire, dispatched,
      stderr, closed>>

concurrentVars ==
    <<logger, cfg, emit>>

emitVars ==
    <<levels, op, target, call, eff, out, written, formatted, raised, fault>>

configVars ==
    <<lastCall>>

workerVars ==
    <<loggerDict, handlersOf, mp>>

vars ==
    <<collectorVars, concurrentVars, emitVars, configVars, workerVars>>

-----------------------------------------------------------------------------
(* Bounds of the model.                                                    *)

MaxRecords == 2

MaxCollectors == 2

MaxReports == 2

-----------------------------------------------------------------------------
(* The transport and the Collector: MPLogger, MPLoggerSocketQueue.         *)

Pids == 1..MaxCollectors

RecordKinds == {"valid", "malformed", "none"}

\* what queue.get() hands to the receiver; "empty" is no record in hand
NoRecord == [id |-> 0, kind |-> "empty"]

MkRecord(i, k) == [id |-> i, kind |-> k]

NewProc == [pc |-> "unborn", running |-> FALSE, rec |-> NoRecord,
            sawNone |-> FALSE, sawBroken |-> FALSE,
            dropFailed |-> FALSE, cancelled |-> FALSE]

\* the process is inside receiver(): "get" is the call of queue.get(),
\* "dispatch" the lines after it; "exit" is receiver() returned
Alive(p) == proc[p].pc \in {"start", "get", "dispatch"}

Report(p, cause, i) == [pid |-> p, cause |-> cause, id |-> i]

\* `while self._running:` (outer, line 306) followed by the inner
\* `while self._running:` (line 308): where control goes from a loop head.
LoopHead(running) == IF running THEN "get" ELSE "exit"

\* `if record is None: break` (lines 311-312) leaves the inner loop only;
\* control is back at the outer loop head.
AfterSentinel(running) == LoopHead(running)

\* a variant that treats every exception as fatal to the loop
AfterExceptionFatal(running) == LoopHead(FALSE)

\* `except Exception:` (lines 319-322) ends the try statement; control is
\* back at the outer loop head.
AfterException(running) == LoopHead(running)

\* a variant whose handler leaves the flag alone: the loop goes on
AfterCancelResume == LoopHead(TRUE)

\* `except (KeyboardInterrupt, SystemExit): self._running = False`
AfterCancel == LoopHead(FALSE)

\* a variant whose handler of the failed privilege drop only reports
RunningAfterDropFailureKept == TRUE

\* line 304, in the handler of the failed privilege drop:
\* `self._running = False`
RunningAfterDropFailure == FALSE

\* `if self._running is True: print(...); traceback.print_exc(...)`
PrintProblem(err, running, p, cause, i) ==
    IF running = TRUE THEN Append(err, Report(p, cause, i)) ELSE err

\* a variant that writes the record a second time (a re-send)
put_resend(q, rec) == Append(Append(q, rec), rec)

\* MPLoggerSocketQueue.put_nowait, called once by QueueHandler.enqueue:
\* send_pickle(self._sock, msg) writes the record once on the socket
put_nowait(q, rec) == Append(q, rec)

\* MPLoggerSocketQueue.get: recv_pickle(self._sock) takes the record at the
\* head of the socket's stream: <<the record, what is left on the socket>>
get(q) == <<Head(q), Tail(q)>>

\* logger.handle(record) through the closure built by handle() (283-288)
Handle(log, p, rec) == Append(log, [pid |-> p, id |-> rec.id])

\* MPLogger.__init__ for name == "__main__": the state after construction
InitCollector ==
    /\ mainRunning = FALSE
    /\ logThread = 0
    /\ proc = [p \in Pids |-> NewProc]
    /\ pipe = <<>>
    /\ broken = FALSE
    /\ sent = 0
    /\ wire = [i \in 1..MaxRecords |-> 0]
    /\ dispatched = <<>>
    /\ stderr = <<>>
    /\ closed = FALSE
    /\ logger = 0
    /\ cfg = 0
    /\ emit = 0
    /\ levels = <<>>
    /\ op = "none"
    /\ target = ""
    /\ call = 0
    /\ eff = 0
    /\ out = <<>>
    /\ written = <<>>
    /\ formatted = FALSE
    /\ raised = FALSE
    /\ fault = "none"
    /\ loggerDict = <<>>
    /\ handlersOf = <<>>
    /\ mp = 0
    /\ lastCall = 0

\* MPLogger.receive() on the primary: a new Process running receiver() is
\* started on every call and replaces self._log_thread (lines 324-329).
Receive ==
    /\ \E p \in Pids :
        /\ proc[p].pc = "unborn"
        /\ \A q \in Pids : q < p => proc[q].pc # "unborn"
        /\ proc' = [proc EXCEPT ![p].pc = "start"]
        /\ logThread' = p
    /\ closed' = FALSE
    /\ UNCHANGED <<mainRunning, pipe, broken, sent, wire, dispatched, stderr>>
    /\ UNCHANGED <<concurrentVars, emitVars, configVars, workerVars>>

\* receiver() up to the loop (lines 291-304): set the flag, then the optional
\* privilege drop; drop is "nouser" (no minion user configured), "ok" or
\* "fail" (switch() raises).
ReceiverStart(p) ==
    /\ proc[p].pc = "start"
    /\ \E drop \in {"nouser", "ok", "fail"} :
        IF drop = "fail"
        THEN /\ Len(stderr) < MaxReports
             /\ stderr' = PrintProblem(stderr, TRUE, p, "switch", 0)
             /\ proc' = [proc EXCEPT
                           ![p].running = RunningAfterDropFailure,
                           ![p].dropFailed = TRUE,
                           ![p].pc = LoopHead(RunningAfterDropFailure)]
        ELSE /\ stderr' = stderr
             /\ proc' = [proc EXCEPT ![p].running = TRUE,
                                     ![p].pc = LoopHead(TRUE)]
    /\ UNCHANGED <<mainRunning, logThread, pipe, broken, sent, wire,
                   dispatched, closed>>
    /\ UNCHANGED <<concurrentVars, emitVars, configVars, workerVars>>

\* queue.get() returns a record (lines 309-312)
GetRecord(p) ==
    /\ proc[p].pc = "get"
    /\ pipe # <<>>
    /\ LET rec == get(pipe)[1]
       IN  /\ pipe' = get(pipe)[2]
           /\ proc' = [proc EXCEPT ![p] =
                 IF rec.kind = "none"
                 THEN [proc[p] EXCEPT
                         !.sawNone = TRUE,
                         !.pc = AfterSentinel(proc[p].running)]
                 ELSE [proc[p] EXCEPT !.rec = rec, !.pc = "dispatch"]]
    /\ UNCHANGED <<mainRunning, logThread, broken, sent, wire, dispatched,
                   stderr, closed>>
    /\ UNCHANGED <<concurrentVars, emitVars, configVars, workerVars>>

\* queue.get() raises: the transport is broken and holds nothing to read
\* (lines 310, 319-322)
GetBroken(p) ==
    /\ proc[p].pc = "get"
    /\ pipe = <<>>
    /\ broken
    /\ Len(stderr) < MaxReports
    /\ stderr' = PrintProblem(stderr, proc[p].running, p, "transport", 0)
    /\ proc' = [proc EXCEPT ![p].sawBroken = TRUE,
                            ![p].pc = AfterException(proc[p].running)]
    /\ UNCHANGED <<mainRunning, logThread, pipe, broken, sent, wire,
                   dispatched, closed>>
    /\ UNCHANGED <<concurrentVars, emitVars, configVars, workerVars>>

\* lines 313-316 for the record in hand: a record of unexpected shape makes
\* record.name / logger.handle raise, which lines 319-322 catch
Dispatch(p) ==
    /\ proc[p].pc = "dispatch"
    /\ LET rec == proc[p].rec
       IN  IF rec.kind = "valid"
           THEN /\ dispatched' = Handle(dispatched, p, rec)
                /\ stderr' = stderr
                /\ proc' = [proc EXCEPT ![p].rec = NoRecord,
                                        ![p].pc = LoopHead(proc[p].running)]
           ELSE /\ Len(stderr) < MaxReports
                /\ dispatched' = dispatched
                /\ stderr' = PrintProblem(stderr, proc[p].running, p,
                                          "record", rec.id)
                /\ proc' = [proc EXCEPT
                              ![p].rec = NoRecord,
                              ![p].pc = AfterException(proc[p].running)]
    /\ UNCHANGED <<mainRunning, logThread, pipe, broken, sent, wire, closed>>
    /\ UNCHANGED <<concurrentVars, emitVars, configVars, workerVars>>

\* KeyboardInterrupt / SystemExit raised inside the try (lines 317-318)
Cancel(p) ==
    /\ proc[p].pc \in {"get", "dispatch"}
    /\ proc' = [proc EXCEPT ![p].running = FALSE,
                            ![p].cancelled = TRUE,
                            ![p].rec = NoRecord,
                            ![p].pc = AfterCancel]
    /\ UNCHANGED <<mainRunning, logThread, pipe, broken, sent, wire,
                   dispatched, stderr, closed>>
    /\ UNCHANGED <<concurrentVars, emitVars, configVars, workerVars>>

\* MPLogger.close() on the primary (lines 331-333); needs a _log_thread.
\* Process.terminate() sends SIGTERM to the one process self._log_thread
\* names, which ends it wherever it is in receiver().
Close ==
    /\ logThread # 0
    /\ mainRunning' = FALSE
    /\ proc' = [proc EXCEPT
                  ![logThread].pc = IF Alive(logThread) THEN "killed" ELSE @,
                  ![logThread].rec = NoRecord]
    /\ closed' = TRUE
    /\ UNCHANGED <<logThread, pipe, broken, sent, wire, dispatched, stderr>>
    /\ UNCHANGED <<concurrentVars, emitVars, configVars, workerVars>>

\* a producer emits one record: QueueHandler.enqueue -> put_nowait ->
\* send_pickle; on a broken transport the send fails and the record is lost
\* (nothing re-sends it)
Send(k) ==
    /\ sent < MaxRecords
    /\ sent' = sent + 1
    /\ IF ~broken
       THEN /\ pipe' = put_nowait(pipe, MkRecord(sent + 1, k))
            /\ wire' = [wire EXCEPT ![sent + 1] =
                          Len(SelectSeq(pipe', LAMBDA r : r.id = sent + 1))]
       ELSE UNCHANGED <<pipe, wire>>
    /\ UNCHANGED <<mainRunning, logThread, proc, broken, dispatched, stderr,
                   closed>>
    /\ UNCHANGED <<concurrentVars, emitVars, configVars, workerVars>>

\* the transport breaks (the peer closes, the socket fails)
BreakTransport ==
    /\ ~broken
    /\ broken' = TRUE
    /\ UNCHANGED <<mainRunning, logThread, proc, pipe, sent, wire, dispatched,
                   stderr, closed>>
    /\ UNCHANGED <<concurrentVars, emitVars, configVars, workerVars>>

NextCollector ==
    \/ Receive
    \/ Close
    \/ BreakTransport
    \/ \E k \in RecordKinds : Send(k)
    \/ \E p \in Pids : ReceiverStart(p)
    \/ \E p \in Pids : GetRecord(p)
    \/ \E p \in Pids : GetBroken(p)
    \/ \E p \in Pids : Dispatch(p)
    \/ \E p \in Pids : Cancel(p)

SpecCollector == InitCollector /\ [][NextCollector]_vars

-----------------------------------------------------------------------------
(* Text: Python strings are sequences of one-character strings.            *)

LowerCase ==
    <<"a", "b", "c", "d", "e", "f", "g", "h", "i", "j", "k", "l", "m",
      "n", "o", "p", "q", "r", "s", "t", "u", "v", "w", "x", "y", "z">>

UpperCase ==
    <<"A", "B", "C", "D", "E", "F", "G", "H", "I", "J", "K", "L", "M",
      "N", "O", "P", "Q", "R", "S", "T", "U", "V", "W", "X", "Y", "Z">>

Digits == <<"0", "1", "2", "3", "4", "5", "6", "7", "8", "9">>

IndexIn(seq, c) == CHOOSE i \in DOMAIN seq : seq[i] = c

IsIn(seq, c) == \E i \in DOMAIN seq : seq[i] = c

\* str.upper()
Upper(s) ==
    [i \in DOMAIN s |->
        IF IsIn(LowerCase, s[i]) THEN UpperCase[IndexIn(LowerCase, s[i])]
        ELSE s[i]]

IsSpace(c) == c \in {" ", "\t", "\n"}

RECURSIVE LStrip(_)
LStrip(s) ==
    IF s # <<>> /\ IsSpace(Head(s)) THEN LStrip(Tail(s)) ELSE s

RECURSIVE RStrip(_)
RStrip(s) ==
    IF s # <<>> /\ IsSpace(s[Len(s)])
    THEN RStrip(SubSeq(s, 1, Len(s) - 1))
    ELSE s

\* str.strip()
Strip(s) == LStrip(RStrip(s))

RECURSIVE DecValue(_)
DecValue(s) ==
    IF s = <<>> THEN 0
    ELSE 10 * DecValue(SubSeq(s, 1, Len(s) - 1))
         + (IndexIn(Digits, s[Len(s)]) - 1)

\* int(text): surrounding whitespace and one sign are accepted, then digits
\* only; anything else raises ValueError
IntOfStr(s) ==
    LET t == Strip(s)
        neg == t # <<>> /\ t[1] = "-"
        body == IF t # <<>> /\ t[1] \in {"+", "-"} THEN Tail(t) ELSE t
        good == body # <<>> /\ \A i \in DOMAIN body : IsIn(Digits, body[i])
    IN  IF good
        THEN [ok |-> TRUE, v |-> IF neg THEN 0 - DecValue(body)
                                 ELSE DecValue(body)]
        ELSE [ok |-> FALSE, v |-> 0]

-----------------------------------------------------------------------------
(* Levels: set_level.                                                      *)

\* the level constants of the logging module
CRITICAL == 50

ERROR == 40

WARNING == 30

INFO == 20

DEBUG == 10

NOTSET == 0

\* the names set_level accepts (lines 151-155) with getattr(logging, name)
LevelNames ==
    << <<"C", "R", "I", "T", "I", "C", "A", "L">>,
       <<"E", "R", "R", "O", "R">>,
       <<"W", "A", "R", "N", "I", "N", "G">>,
       <<"I", "N", "F", "O">>,
       <<"D", "E", "B", "U", "G">> >>

LevelValues == <<CRITICAL, ERROR, WARNING, INFO, DEBUG>>

\* a level as the caller gives it: a number or a text
IntLevel(n) == [t |-> "int", n |-> n, s |-> <<>>]

StrLevel(s) == [t |-> "str", n |-> 0, s |-> s]

NoLevel == [t |-> "none", n |-> 0, s |-> <<>>]

\* a variant that compares the name as given, without upper() and strip()
set_level_exact(old, level) ==
    LET num == IF level.t = "int" THEN [ok |-> TRUE, v |-> level.n]
               ELSE IntOfStr(level.s)
    IN  IF num.ok THEN [raised |-> FALSE, level |-> num.v]
        ELSE IF IsIn(LevelNames, level.s)
        THEN [raised |-> FALSE,
              level |-> LevelValues[IndexIn(LevelNames, level.s)]]
        ELSE [raised |-> TRUE, level |-> old]

\* a variant that resets the level before it raises
set_level_reset(old, level) ==
    LET num == IF level.t = "int" THEN [ok |-> TRUE, v |-> level.n]
               ELSE IntOfStr(level.s)
        name == Strip(Upper(level.s))
    IN  IF num.ok THEN [raised |-> FALSE, level |-> num.v]
        ELSE IF IsIn(LevelNames, name)
        THEN [raised |-> FALSE,
              level |-> LevelValues[IndexIn(LevelNames, name)]]
        ELSE [raised |-> TRUE, level |-> NOTSET]

\* set_level(logger, level), lines 145-160: the logger's level afterwards,
\* and whether ValueError was raised (the level is then as before)
set_level(old, level) ==
    LET num == IF level.t = "int" THEN [ok |-> TRUE, v |-> level.n]
               ELSE IntOfStr(level.s)
        name == Strip(Upper(level.s))
    IN  IF num.ok THEN [raised |-> FALSE, level |-> num.v]
        ELSE IF IsIn(LevelNames, name)
        THEN [raised |-> FALSE,
              level |-> LevelValues[IndexIn(LevelNames, name)]]
        ELSE [raised |-> TRUE, level |-> old]

-----------------------------------------------------------------------------
(* Sinks: configure.                                                       *)

\* a handler object: its kind, its formatter ("none" until setFormatter),
\* the _TachyonFilter objects added to it, and, for syslog, its address
Handler(kind, fmt, filters, addr) ==
    [kind |-> kind, fmt |-> fmt, filters |-> filters, addr |-> addr]

\* _TachyonFilter(app_name)
TachyonFilter(app_name) == [app_name |-> app_name]

NoName == "<None>"

\* str.lower()
Lower(s) ==
    [i \in DOMAIN s |->
        IF IsIn(UpperCase, s[i]) THEN LowerCase[IndexIn(UpperCase, s[i])]
        ELSE s[i]]

IsLetter(c) == IsIn(LowerCase, c) \/ IsIn(UpperCase, c)

\* str.title(): a letter that follows no letter is upper-cased, every other
\* letter lower-cased
Title(s) ==
    [i \in DOMAIN s |->
        IF i = 1 \/ ~IsLetter(s[i - 1]) THEN Upper(<<s[i]>>)[1]
        ELSE Lower(<<s[i]>>)[1]]

\* g.app outside an application context: the lookup raises NoContextError
NoApp == "<NoContextError>"

\* what g.app.config.get('application', 'name', fallback='') finds at the
\* time a record is handled: no application context, a configuration
\* without a name (the fallback ''), or a name
AppContexts == {NoApp, <<>>, <<"m", "y", " ", "a", "p", "p">>}

\* a LogRecord as the logging module makes it: without an app_name
\* attribute
NewLogRecord == [app_name |-> [none |-> TRUE, s |-> <<>>]]

\* _TachyonFilter.filter(record), lines 130-142: whether the record passes
\* and the record it leaves.  The filter's own name is kept as one piece
\* after the blank it is given.
filter(f, app, record) ==
    [pass |-> TRUE,
     record |->
         IF app # NoApp
         THEN [record EXCEPT !.app_name = [none |-> FALSE, s |-> Title(app)]]
         ELSE IF f.app_name # NoName
         THEN [record EXCEPT
                  !.app_name = [none |-> FALSE, s |-> <<" ", f.app_name>>]]
         ELSE record]

RECURSIVE FilterAll(_, _, _)
\* Handler.handle(record) up to its formatter: the handler's filters in
\* the order they were added; a record one of them rejects is dropped
FilterAll(fs, app, record) ==
    IF fs = <<>> THEN [pass |-> TRUE, record |-> record]
    ELSE LET r == filter(fs[1], app, record)
         IN  IF r.pass THEN FilterAll(Tail(fs), app, r.record) ELSE r

RECURSIVE callHandlers(_, _, _)
\* logger.handle(record): each handler of the logger in turn is given the
\* same record object; the result lists, for each handler, whether the
\* record reached its formatter and the app_name it had there
callHandlers(hs, app, record) ==
    IF hs = <<>> THEN <<>>
    ELSE LET r == FilterAll(hs[1].filters, app, record)
         IN  <<[formatted |-> r.pass, app_name |-> r.record.app_name]>>
             \o callHandlers(Tail(hs), app, r.record)

\* where SysLogHandler is pointed (lines 209-220)
SyslogAddress(host, devlog, varrun) ==
    IF host = "127.0.0.1" \/ host = "localhost"
    THEN IF devlog THEN "/dev/log"
         ELSE IF varrun THEN "/var/run/syslog"
         ELSE "host:port"
    ELSE "host:port"

\* the part of the configuration one configure() call reads: whether the
\* section is in the config, its keys, and which syslog sockets exist
Section(present, name, lvl, stdout, server, file, devlog, varrun) ==
    [present |-> present, name |-> name, log_level |-> lvl,
     log_stdout |-> stdout, log_server |-> server, log_file |-> file,
     devlog |-> devlog, varrun |-> varrun]

AbsentSection ==
    Section(FALSE, NoName, NoLevel, FALSE, NoName, NoName, FALSE, FALSE)

\* list.remove of the element the for loop is at (logger.removeHandler)
RemoveAt(hs, i) ==
    [k \in 1..(Len(hs) - 1) |-> IF k < i THEN hs[k] ELSE hs[k + 1]]

\* logger.addHandler(handler)
addHandler(hs, h) == Append(hs, h)

\* a variant that takes the default case for any section that is absent
IsDefaultCaseAnySection(section_name, sec) == ~sec.present

\* lines 164-165
IsDefaultCase(section_name, sec) ==
    section_name = "application" /\ ~sec.present

\* lines 168-169, one turn of `for handler in logger.handlers:` whose
\* iterator is at index i (0-based): the handler there is removed from the
\* very list the loop runs over
RemoveLoopTurn(hs, i) == RemoveAt(hs, i + 1)

\* lines 172-174: the default stdout handler, added before its formatter
\* is set
DefaultHandler == Handler("stdout", "none", <<TachyonFilter(NoName)>>, "")

\* line 175: handler.setFormatter(simple_format) on the handler just added
SetSimpleFormat(hs) ==
    [hs EXCEPT ![Len(hs)].fmt = "simple"]

\* lines 183-186
SectionFilter(section_name, sec) ==
    IF section_name = "application" /\ sec.name # NoName
    THEN TachyonFilter(sec.name)
    ELSE TachyonFilter(NoName)

\* a variant that leaves the list as it is: the new handlers add to the
\* old ones
ClearHandlersKeep(hs) == hs

\* line 189: logger.handlers = []
ClearHandlers(hs) == <<>>

\* a variant that gives every logger the WARNING default
LevelStepAnyLogger(section_name, sec, old) ==
    IF sec.log_level.t # "none" THEN set_level(old, sec.log_level)
    ELSE set_level(old, StrLevel(<<"W", "A", "R", "N", "I", "N", "G">>))

\* lines 192-196
LevelStep(section_name, sec, old) ==
    IF sec.log_level.t # "none" THEN set_level(old, sec.log_level)
    ELSE IF section_name = "application"
    THEN set_level(old, StrLevel(<<"W", "A", "R", "N", "I", "N", "G">>))
    ELSE [raised |-> FALSE, level |-> old]

\* lines 199-203
StdoutStep(section_name, sec, hs) ==
    IF sec.log_stdout
    THEN addHandler(hs, Handler("stdout", "verbose",
                                <<SectionFilter(section_name, sec)>>, ""))
    ELSE hs

\* lines 206-224
SyslogStep(section_name, sec, hs) ==
    IF sec.log_server # NoName
    THEN addHandler(hs,
             Handler("syslog", "verbose",
                     <<SectionFilter(section_name, sec)>>,
                     SyslogAddress(sec.log_server, sec.devlog, sec.varrun)))
    ELSE hs

\* lines 227-233
FileStep(section_name, sec, hs) ==
    IF sec.log_file # NoName
    THEN addHandler(hs, Handler("file", "verbose",
                                <<SectionFilter(section_name, sec)>>, ""))
    ELSE hs

-----------------------------------------------------------------------------
(* configure() in one thread while another thread emits on the same        *)
(* logger.  Each statement of configure that touches logger.handlers is    *)
(* one step; a turn of the `for hdlr in c.handlers` loop of                *)
(* Logger.callHandlers, entered from self.logger.<severity>(msg), is one   *)
(* step of the emitting thread.                                            *)

\* the section names GetLogger.configure passes: 'application' for the root
\* logger, the logger's own name for a sub-logger
SectionNames == {"application", "luxon.app"}

S_bogus == <<"b", "o", "g", "u", "s">>

S_10 == <<"1", "0">>

S_error_padded == <<" ", "e", "r", "r", "o", "r", " ">>

\* the configurations a configure() call is given in SpecConcurrent: no
\* section, an empty section, every sink, a file sink, and a file sink
\* under a level that set_level rejects
ConcurrentSections ==
    {AbsentSection,
     Section(TRUE, NoName, NoLevel, FALSE, NoName, NoName, TRUE, FALSE),
     Section(TRUE, NoName, NoLevel, TRUE, "localhost", "/tmp/x.log",
             TRUE, FALSE),
     Section(TRUE, NoName, StrLevel(S_10), FALSE, NoName, "/tmp/x.log",
             TRUE, FALSE),
     Section(TRUE, NoName, StrLevel(S_bogus), FALSE, NoName, "/tmp/x.log",
             TRUE, FALSE)}

\* the sinks of a handler list, in order: what an emit writes to
Bindings(hs) == [i \in DOMAIN hs |-> hs[i].kind]

IdleCfg == [pc |-> "idle", sec |-> AbsentSection, i |-> 0, before |-> <<>>]

IdleEmit == [pc |-> "idle", idx |-> 0, live |-> TRUE, snap |-> <<>>,
             seen |-> <<>>, cands |-> {}, pending |-> FALSE]

\* logging.getLogger(name): a logger without handlers; the root logger's
\* level is WARNING, any other logger's is NOTSET
InitConcurrent ==
    /\ \E n \in SectionNames :
        logger = [name |-> n, handlers |-> <<>>,
                  level |-> IF n = "application" THEN WARNING ELSE NOTSET]
    /\ cfg = IdleCfg
    /\ emit = IdleEmit
    /\ mainRunning = FALSE
    /\ logThread = 0
    /\ proc = <<>>
    /\ pipe = <<>>
    /\ broken = FALSE
    /\ sent = 0
    /\ wire = <<>>
    /\ dispatched = <<>>
    /\ stderr = <<>>
    /\ closed = FALSE
    /\ levels = <<>>
    /\ op = "none"
    /\ target = ""
    /\ call = 0
    /\ eff = 0
    /\ out = <<>>
    /\ written = <<>>
    /\ formatted = FALSE
    /\ raised = FALSE
    /\ fault = "none"
    /\ loggerDict = <<>>
    /\ handlersOf = <<>>
    /\ mp = 0
    /\ lastCall = 0

\* a configure() call returns: an emit that ran during the call may have
\* seen the bindings the call leaves
Returned(e, hs) ==
    IF e.pc = "iter" \/ (e.pc = "done" /\ e.pending)
    THEN [e EXCEPT !.cands = @ \cup {Bindings(hs)}, !.pending = FALSE]
    ELSE e

\* configure(config, config_section, logger) is entered (lines 163-165, 177)
ConfigureCall(sec) ==
    /\ cfg.pc = "idle"
    /\ IsDefaultCase(logger.name, sec) \/ sec.present
    /\ cfg' = [pc |-> IF IsDefaultCase(logger.name, sec) THEN "remove"
                      ELSE "clear",
               sec |-> sec, i |-> 0, before |-> Bindings(logger.handlers)]
    /\ UNCHANGED <<logger, emit>>
    /\ UNCHANGED <<collectorVars, emitVars, configVars, workerVars>>

\* lines 168-169: one turn of the removal loop, or its end
RemoveTurn ==
    /\ cfg.pc = "remove"
    /\ IF cfg.i < Len(logger.handlers)
       THEN /\ logger' = [logger EXCEPT
                            !.handlers = RemoveLoopTurn(@, cfg.i)]
            /\ cfg' = [cfg EXCEPT !.i = @ + 1]
       ELSE /\ cfg' = [cfg EXCEPT !.pc = "add_default"]
            /\ logger' = logger
    /\ UNCHANGED emit
    /\ UNCHANGED <<collectorVars, emitVars, configVars, workerVars>>

\* lines 172-174
AddDefault ==
    /\ cfg.pc = "add_default"
    /\ logger' = [logger EXCEPT !.handlers = addHandler(@, DefaultHandler)]
    /\ cfg' = [cfg EXCEPT !.pc = "set_format"]
    /\ UNCHANGED emit
    /\ UNCHANGED <<collectorVars, emitVars, configVars, workerVars>>

\* line 175, after which the call returns (line 177 is false)
SetFormat ==
    /\ cfg.pc = "set_format"
    /\ logger' = [logger EXCEPT !.handlers = SetSimpleFormat(@)]
    /\ cfg' = IdleCfg
    /\ emit' = Returned(emit, logger'.handlers)
    /\ UNCHANGED <<collectorVars, emitVars, configVars, workerVars>>

\* line 189: logger.handlers is bound to a new list; a loop that runs over
\* the old list object keeps running over it
Clear ==
    /\ cfg.pc = "clear"
    /\ logger' = [logger EXCEPT !.handlers = ClearHandlers(@)]
    /\ cfg' = [cfg EXCEPT !.pc = "level"]
    /\ emit' = IF emit.pc = "iter" /\ emit.live
               THEN [emit EXCEPT !.live = FALSE,
                                 !.snap = Bindings(logger.handlers)]
               ELSE emit
    /\ UNCHANGED <<collectorVars, emitVars, configVars, workerVars>>

\* lines 192-196: ValueError leaves configure() here
Level ==
    /\ cfg.pc = "level"
    /\ LET r == LevelStep(logger.name, cfg.sec, logger.level)
       IN  /\ logger' = [logger EXCEPT !.level = r.level]
           /\ cfg' = IF r.raised THEN IdleCfg ELSE [cfg EXCEPT !.pc = "stdout"]
           /\ emit' = IF r.raised THEN Returned(emit, logger.handlers)
                      ELSE emit
    /\ UNCHANGED <<collectorVars, emitVars, configVars, workerVars>>

\* lines 199-203
Stdout ==
    /\ cfg.pc = "stdout"
    /\ logger' = [logger EXCEPT
                    !.handlers = StdoutStep(logger.name, cfg.sec, @)]
    /\ cfg' = [cfg EXCEPT !.pc = "syslog"]
    /\ UNCHANGED emit
    /\ UNCHANGED <<collectorVars, emitVars, configVars, workerVars>>

\* lines 206-224
Syslog ==
    /\ cfg.pc = "syslog"
    /\ logger' = [logger EXCEPT
                    !.handlers = SyslogStep(logger.name, cfg.sec, @)]
    /\ cfg' = [cfg EXCEPT !.pc = "file"]
    /\ UNCHANGED emit
    /\ UNCHANGED <<collectorVars, emitVars, configVars, workerVars>>

\* lines 227-233, after which the call returns
File ==
    /\ cfg.pc = "file"
    /\ logger' = [logger EXCEPT
                    !.handlers = FileStep(logger.name, cfg.sec, @)]
    /\ cfg' = IdleCfg
    /\ emit' = Returned(emit, logger'.handlers)
    /\ UNCHANGED <<collectorVars, emitVars, configVars, workerVars>>

\* self.logger.<severity>(msg) reaches Logger.callHandlers: the loop over
\* the logger's handler list starts
EmitStart ==
    /\ emit.pc \in {"idle", "done"}
    /\ emit' = [pc |-> "iter", idx |-> 0, live |-> TRUE, snap |-> <<>>,
                seen |-> <<>>,
                cands |-> {IF cfg.pc = "idle" THEN Bindings(logger.handlers)
                           ELSE cfg.before},
                pending |-> FALSE]
    /\ UNCHANGED <<logger, cfg>>
    /\ UNCHANGED <<collectorVars, emitVars, configVars, workerVars>>

\* one turn of `for hdlr in c.handlers`: the list iterator yields the item
\* at its index while the index is inside the list, and ends otherwise
EmitTurn ==
    /\ emit.pc = "iter"
    /\ LET list == IF emit.live THEN Bindings(logger.handlers)
                   ELSE emit.snap
       IN  emit' = IF emit.idx < Len(list)
                   THEN [emit EXCEPT !.seen = Append(@, list[emit.idx + 1]),
                                     !.idx = @ + 1]
                   ELSE [emit EXCEPT !.pc = "done",
                                     !.pending = cfg.pc # "idle"]
    /\ UNCHANGED <<logger, cfg>>
    /\ UNCHANGED <<collectorVars, emitVars, configVars, workerVars>>

NextConcurrent ==
    \/ \E sec \in ConcurrentSections : ConfigureCall(sec)
    \/ RemoveTurn
    \/ AddDefault
    \/ SetFormat
    \/ Clear
    \/ Level
    \/ Stdout
    \/ Syslog
    \/ File
    \/ EmitStart
    \/ EmitTurn

SpecConcurrent == InitConcurrent /\ [][NextConcurrent]_vars

-----------------------------------------------------------------------------
(* configure() and the level setter called one after another on one        *)
(* logger (SpecConfig).                                                    *)

RECURSIVE RemoveLoop(_, _)
\* lines 168-169: the whole `for handler in logger.handlers:` loop, from
\* the turn at index i on
RemoveLoop(hs, i) ==
    IF i < Len(hs) THEN RemoveLoop(RemoveLoopTurn(hs, i), i + 1) ELSE hs

\* logger.name of the logger a section configures: 'application' is the
\* section of the root logger
LoggerName(section_name) ==
    IF section_name = "application" THEN <<"r", "o", "o", "t">>
    ELSE <<"l", "u", "x", "o", "n", ".", "a", "p", "p">>

\* lines 158-160: the message of the ValueError
InvalidLevelMessage(level, name) ==
    <<"I", "n", "v", "a", "l", "i", "d", " ", "l", "o", "g", "g", "i", "n",
      "g", " ", "l", "e", "v", "e", "l", " ", "'">> \o level
    \o <<"'">> \o <<" ", "f", "o", "r", " ", "l", "o", "g", "g", "e", "r">>
    \o <<" ", "'">> \o name \o <<"'">>

\* set_level(logger, level) with the error it raises: line 150 rebinds
\* level to its upper-cased, stripped form before the message is built
SetLevelOf(section_name, old, level) ==
    LET r == set_level(old, level)
    IN  [raised |-> r.raised, level |-> r.level,
         error |-> IF r.raised
                   THEN InvalidLevelMessage(Strip(Upper(level.s)),
                                            LoggerName(section_name))
                   ELSE <<>>]

\* configure(config, config_section, logger), lines 163-233, as one call:
\* the handlers and the level it leaves and whether it raised
configure(section_name, sec, lg) ==
    IF IsDefaultCase(section_name, sec)
    THEN [handlers |-> SetSimpleFormat(
                           addHandler(RemoveLoop(lg.handlers, 0),
                                      DefaultHandler)),
          level |-> lg.level, raised |-> FALSE, error |-> <<>>]
    ELSE IF ~sec.present
    THEN [handlers |-> lg.handlers, level |-> lg.level, raised |-> FALSE,
          error |-> <<>>]
    ELSE LET r == LevelStep(section_name, sec, lg.level)
         IN  IF r.raised
             THEN [handlers |-> ClearHandlers(lg.handlers),
                   level |-> r.level, raised |-> TRUE,
                   error |-> SetLevelOf(section_name, lg.level,
                                        sec.log_level).error]
             ELSE [handlers |->
                       FileStep(section_name, sec,
                           SyslogStep(section_name, sec,
                               StdoutStep(section_name, sec,
                                   ClearHandlers(lg.handlers)))),
                   level |-> r.level, raised |-> FALSE, error |-> <<>>]

\* the sections a configure() call is given in SpecConfig: every choice of
\* sinks under no level, a level name and a level set_level rejects; no
\* section; and a named section with a remote syslog server
ConfigSections ==
    {Section(TRUE, NoName, lv, so, sv, f, TRUE, FALSE) :
        lv \in {NoLevel, StrLevel(S_error_padded), StrLevel(S_bogus)},
        so \in BOOLEAN,
        sv \in {NoName, "localhost"},
        f \in {NoName, "/tmp/x.log"}}
    \cup {AbsentSection,
          Section(TRUE, "app", NoLevel, TRUE, "10.0.0.1", NoName,
                  FALSE, FALSE)}

\* the values the level setter is given in SpecConfig
SetterInputs ==
    {IntLevel(NOTSET), IntLevel(15),
     StrLevel(S_10), StrLevel(S_error_padded), StrLevel(S_bogus),
     StrLevel(<<"C", "r", "i", "t", "i", "c", "a", "l">>),
     StrLevel(<<"W", "A", "R", "N", "I", "N", "G">>),
     StrLevel(<<"i", "n", "f", "o">>),
     StrLevel(<<"d", "E", "B", "U", "G">> \o <<"\n">>),
     StrLevel(<<"w", "a", "r", "n">>),
     StrLevel(<<>>)}

NoLast ==
    [op |-> "none", sec |-> AbsentSection, arg |-> NoLevel, before |-> <<>>,
     levelBefore |-> NOTSET, raised |-> FALSE, error |-> <<>>,
     twice |-> FALSE, first |-> <<>>, seen |-> <<>>]

\* logging.getLogger(name): a logger without handlers, the root logger at
\* WARNING and any other at NOTSET; GetLogger() (lines 349-356) has given
\* the root logger its stdout handler, or has not been constructed
InitConfig ==
    /\ \E n \in SectionNames :
       \E hs \in IF n = "application"
                 THEN {<<>>, SetSimpleFormat(<<DefaultHandler>>)}
                 ELSE {<<>>} :
        logger = [name |-> n, handlers |-> hs,
                  level |-> IF n = "application" THEN WARNING ELSE NOTSET]
    /\ lastCall = NoLast
    /\ cfg = IdleCfg
    /\ emit = IdleEmit
    /\ mainRunning = FALSE
    /\ logThread = 0
    /\ proc = <<>>
    /\ pipe = <<>>
    /\ broken = FALSE
    /\ sent = 0
    /\ wire = <<>>
    /\ dispatched = <<>>
    /\ stderr = <<>>
    /\ closed = FALSE
    /\ levels = <<>>
    /\ op = "none"
    /\ target = ""
    /\ call = 0
    /\ eff = 0
    /\ out = <<>>
    /\ written = <<>>
    /\ formatted = FALSE
    /\ raised = FALSE
    /\ fault = "none"
    /\ loggerDict = <<>>
    /\ handlersOf = <<>>
    /\ mp = 0

\* configure(config, logger's section, logger), the whole call
Configure(sec) ==
    /\ \E r \in {configure(logger.name, sec, logger)} :
       \E again \in {lastCall.op = "configure" /\ lastCall.sec = sec} :
           /\ logger' = [logger EXCEPT !.handlers = r.handlers,
                                       !.level = r.level]
           /\ lastCall' =
                  [op |-> "configure", sec |-> sec, arg |-> NoLevel,
                   before |-> Bindings(logger.handlers),
                   levelBefore |-> logger.level,
                   raised |-> r.raised, error |-> r.error,
                   twice |-> again,
                   first |-> IF again THEN Bindings(logger.handlers)
                             ELSE <<>>,
                   seen |-> <<>>]
    /\ UNCHANGED <<cfg, emit>>
    /\ UNCHANGED <<collectorVars, emitVars, workerVars>>

\* GetLogger(name).level = level (lines 363-365)
LevelSetter(level) ==
    /\ \E r \in {SetLevelOf(logger.name, logger.level, level)} :
           /\ logger' = [logger EXCEPT !.level = r.level]
           /\ lastCall' =
                  [op |-> "level", sec |-> AbsentSection, arg |-> level,
                   before |-> Bindings(logger.handlers),
                   levelBefore |-> logger.level,
                   raised |-> r.raised, error |-> r.error,
                   twice |-> FALSE, first |-> <<>>, seen |-> <<>>]
    /\ UNCHANGED <<cfg, emit>>
    /\ UNCHANGED <<collectorVars, emitVars, workerVars>>

\* a record is handled by the logger right after a configure() call, in
\* or outside an application context: what reaches each sink's formatter
HandleRecord(app) ==
    /\ lastCall.op = "configure"
    /\ lastCall' =
           [lastCall EXCEPT
               !.op = "handle",
               !.seen = callHandlers(logger.handlers, app, NewLogRecord)]
    /\ UNCHANGED logger
    /\ UNCHANGED <<cfg, emit>>
    /\ UNCHANGED <<collectorVars, emitVars, workerVars>>

NextConfig ==
    \/ \E sec \in ConfigSections : Configure(sec)
    \/ \E level \in SetterInputs : LevelSetter(level)
    \/ \E app \in AppContexts : HandleRecord(app)

SpecConfig == InitConfig /\ [][NextConfig]_vars

-----------------------------------------------------------------------------
(* Formatting: log_formatted and string_id.                                *)

\* the per-message size limit handed to split_by_n
LineLimit == 300

\* an optional text argument (prepend, append, log_id): None or a text
NoText == [none |-> TRUE, s |-> <<>>]

Text(s) == [none |-> FALSE, s |-> s]

\* an optional timer argument
NoTimer == [none |-> TRUE, n |-> 0]

Timer(n) == [none |-> FALSE, n |-> n]

RECURSIVE Dec(_)
\* '%s' of a non-negative integer
Dec(n) ==
    IF n < 10 THEN <<Digits[n + 1]>>
    ELSE Dec(n \div 10) \o <<Digits[(n % 10) + 1]>>

\* if_bytes_to_unicode(message) then str(): the text of a bytes or str
\* message
IfBytesToUnicode(msg) == msg.s

\* format_seconds(timer)
FormatSeconds(n) == Dec(n) \o <<"s">>

RECURSIVE list_of_lines(_)
\* list_of_lines(message): the message split on newlines
list_of_lines(s) ==
    IF ~IsIn(s, "\n") THEN <<s>>
    ELSE LET i == CHOOSE k \in DOMAIN s :
                      s[k] = "\n" /\ \A j \in 1..(k - 1) : s[j] # "\n"
         IN  <<SubSeq(s, 1, i - 1)>> \o list_of_lines(SubSeq(s, i + 1, Len(s)))

RECURSIVE split_by_n(_, _)
\* split_by_n(line, n): consecutive pieces of n characters, the last one
\* shorter; nothing for an empty line
split_by_n(line, n) ==
    IF line = <<>> THEN <<>>
    ELSE IF Len(line) <= n THEN <<line>>
    ELSE <<SubSeq(line, 1, n)>> \o split_by_n(SubSeq(line, n + 1, Len(line)), n)

\* a variant that assigns where line 92 accumulates: `message =
\* split_by_n(line, 300)` keeps the pieces of the last line only
SplitAllAssign(lines) ==
    IF lines = <<>> THEN <<>>
    ELSE split_by_n(lines[Len(lines)], LineLimit)

RECURSIVE SplitAll(_)
\* lines 86-92: message += split_by_n(line, 300) for every line
SplitAll(lines) ==
    IF lines = <<>> THEN <<>>
    ELSE split_by_n(Head(lines), LineLimit) \o SplitAll(Tail(lines))

\* the characters string_id draws from: string.ascii_letters + string.digits
IsAlnum(c) == IsIn(LowerCase, c) \/ IsIn(UpperCase, c) \/ IsIn(Digits, c)

\* the characters of it the model draws
DrawnChars == {"a", "Z", "7"}

\* a variant that ignores the length asked for and uses the default of 8
string_id_default(length) ==
    {[i \in 1..8 |-> c] : c \in DrawnChars}

\* string_id(length), unique.py lines 38-51: the ids it may return
string_id(length) ==
    {[i \in 1..length |-> c] : c \in DrawnChars}
    \cup {[i \in 1..length |-> IF i % 2 = 1 THEN "a" ELSE "7"]}

\* the request context of a call: none (NoContextError), or the log items
\* of g.current_request and its id ("" when id raises NotImplementedError)
NoContext == [none |-> TRUE, items |-> <<>>, hasId |-> FALSE, id |-> <<>>]

Context(items, hasId, id) ==
    [none |-> FALSE, items |-> items, hasId |-> hasId, id |-> id]

RECURSIVE JoinSpace(_)
\* " ".join(texts)
JoinSpace(texts) ==
    IF texts = <<>> THEN <<>>
    ELSE IF Len(texts) = 1 THEN texts[1]
    ELSE texts[1] \o <<" ">> \o JoinSpace(Tail(texts))

\* '(%s: %s)' % (key, value)
Item(kv) == <<"(">> \o kv[1] \o <<":", " ">> \o kv[2] \o <<")">>

S_REQUEST_ID == <<"R", "E", "Q", "U", "E", "S", "T", "-", "I", "D">>

\* lines 68-77
RequestText(ctx) ==
    IF ctx.none THEN <<>>
    ELSE LET log_items == IF ctx.hasId
                          THEN Append(ctx.items, <<S_REQUEST_ID, ctx.id>>)
                          ELSE ctx.items
         IN  JoinSpace([i \in DOMAIN log_items |-> Item(log_items[i])])

S_DURATION ==
    <<" ", "(", "D", "U", "R", "A", "T", "I", "O", "N", ":", " ">>

\* a variant without the test of line 81: the duration is appended to an
\* empty message too
MessageChunksUnguarded(msg, timer) ==
    LET message == Strip(IfBytesToUnicode(msg))
    IN  SplitAll(list_of_lines(
            IF timer.none THEN message
            ELSE message \o S_DURATION \o FormatSeconds(timer.n)
                 \o <<")">>))

\* lines 79-92: the stripped message with its duration suffix, split; no
\* chunk at all when the stripped message is empty (line 81)
MessageChunks(msg, timer) ==
    LET message == Strip(IfBytesToUnicode(msg))
    IN  IF message = <<>> THEN <<>>
        ELSE SplitAll(list_of_lines(
                 IF timer.none THEN message
                 ELSE message \o S_DURATION \o FormatSeconds(timer.n)
                      \o <<")">>))

\* line 99: "(%s) #0 %s" % (log_id, prepend)
LeadLine(log_id, prepend) ==
    <<"(">> \o log_id \o <<")", " ", "#", "0", " ">> \o prepend

\* line 102: '(%s) %s# %s' % (log_id, line+1, p), line the 0-based index
ChunkLine(log_id, line, p) ==
    <<"(">> \o log_id \o <<")", " ">> \o Dec(line + 1) \o <<"#", " ">> \o p

\* a variant that numbers the trailing line like the last chunk
TrailingNumberStale(line) == line + 1

\* line 106: line+2, line being what the loop of line 101 left in it
TrailingNumber(line) == line + 2

\* line 106: "(%s) #%s %s" % (log_id, line+2, append)
TrailingLine(log_id, line, append) ==
    <<"(">> \o log_id \o <<")", " ", "#">> \o Dec(TrailingNumber(line))
    \o <<" ">> \o append

\* lines 95-106: the lines of a message of more than one chunk; gen is
\* what string_id(6) returns if it is called
MultiLine(message, prepend, append, log_id, gen) ==
    LET id == IF log_id.none THEN gen ELSE log_id.s
        last == Len(message) - 1
    IN  (IF prepend.none THEN <<>> ELSE <<LeadLine(id, prepend.s)>>)
        \o [k \in 1..Len(message) |-> ChunkLine(id, k - 1, message[k])]
        \o (IF append.none THEN <<>>
            ELSE <<TrailingLine(id, last, append.s)>>)

\* a variant without the test of line 108: '(%s) ' % log_id renders
\* "(None) " when no id is given
SingleLineNoneId(message, prepend, append, log_id, request) ==
    LET msg0 == IF log_id.none THEN <<"(", "N", "o", "n", "e", ")", " ">>
                ELSE <<"(">> \o log_id.s \o <<")", " ">>
        msg1 == IF prepend.none THEN msg0 \o message[1]
                ELSE msg0 \o prepend.s \o <<" ">> \o message[1]
        msg2 == IF append.none THEN msg1
                ELSE msg1 \o <<" ">> \o append.s
    IN  <<msg2 \o <<" ">> \o request>>

\* lines 108-122: the one line of a message of one chunk
SingleLine(message, prepend, append, log_id, request) ==
    LET msg0 == IF log_id.none THEN <<>>
                ELSE <<"(">> \o log_id.s \o <<")", " ">>
        msg1 == IF prepend.none THEN msg0 \o message[1]
                ELSE msg0 \o prepend.s \o <<" ">> \o message[1]
        msg2 == IF append.none THEN msg1
                ELSE msg1 \o <<" ">> \o append.s
    IN  <<msg2 \o <<" ">> \o request>>

\* log_formatted, lines 60-122: the lines handed to logger_facility, in
\* order
log_formatted(c, gen) ==
    LET message == MessageChunks(c.msg, c.timer)
    IN  IF message = <<>> THEN <<>>
        ELSE IF Len(message) > 1
        THEN MultiLine(message, c.prepend, c.append, c.log_id, gen)
        ELSE SingleLine(message, c.prepend, c.append, c.log_id,
                        RequestText(c.ctx))

\* the ids string_id(6) may return on line 96, when line 96 is reached
GeneratedIds(c) ==
    IF Len(MessageChunks(c.msg, c.timer)) > 1 /\ c.log_id.none
    THEN string_id(6)
    ELSE {<<>>}

-----------------------------------------------------------------------------
(* log_formatted as a function of its arguments (SpecFormat).              *)

\* lines of a message the model draws
MaxLines == 2

LineAlphabet == <<"a", "b", "c", "d", "e", "f", "g">>

\* a line of n characters without whitespace
MkLine(n) == [i \in 1..n |-> LineAlphabet[(i % 7) + 1]]

\* the line lengths drawn: around the limit and beyond two chunks
LineLengths == {0, LineLimit, LineLimit + 1, 2 * LineLimit + 50}

RECURSIVE JoinLines(_)
JoinLines(ls) ==
    IF Len(ls) = 1 THEN MkLine(ls[1])
    ELSE MkLine(ls[1]) \o <<"\n">> \o JoinLines(Tail(ls))

\* a message argument: a str or bytes object with its text
Message(bytes, s) == [bytes |-> bytes, s |-> s]

\* short messages, and one that only its duration suffix takes over the
\* limit
ShortMessages ==
    {Message(FALSE, <<"h", "i">>),
     Message(TRUE, <<" ", "h", "i", "\n">>),
     Message(FALSE, MkLine(LineLimit - 1))}

Messages ==
    {Message(FALSE, <<>>)} \cup ShortMessages \cup
    UNION {{Message(FALSE, JoinLines(ls)),
            Message(TRUE, <<" ">> \o JoinLines(ls) \o <<"\n">>)} :
           ls \in UNION {[1..k -> LineLengths] : k \in 1..MaxLines}}

S_P == <<"p", "r", "e">>

S_A == <<"p", "o", "s", "t">>

S_rq == <<"r", "q">>

Contexts ==
    {NoContext,
     Context(<<>>, TRUE, <<"7">>),
     Context(<< <<<<"k">>, <<"v">>>> >>, FALSE, <<>>)}

\* the arguments of one log_formatted call
Call(msg, prepend, append, timer, log_id, ctx) ==
    [msg |-> msg, prepend |-> prepend, append |-> append, timer |-> timer,
     log_id |-> log_id, ctx |-> ctx]

FormatCalls ==
    {Call(m, p, a, t, i, cx) :
        m \in Messages,
        p \in {NoText, Text(<<>>), Text(S_P)},
        a \in {NoText, Text(S_A)},
        t \in {NoTimer, Timer(12)},
        i \in {NoText, Text(S_rq)},
        cx \in Contexts}

NoCall ==
    Call(Message(FALSE, <<>>), NoText, NoText, NoTimer, NoText, NoContext)

InitFormat ==
    /\ call \in FormatCalls
    /\ op = "log_formatted"
    /\ out = <<>>
    /\ written = <<>>
    /\ formatted = FALSE
    /\ levels = <<>>
    /\ target = ""
    /\ eff = 0
    /\ raised = FALSE
    /\ fault = "none"
    /\ loggerDict = <<>>
    /\ handlersOf = <<>>
    /\ mp = 0
    /\ lastCall = 0
    /\ logger = 0
    /\ cfg = 0
    /\ emit = 0
    /\ mainRunning = FALSE
    /\ logThread = 0
    /\ proc = <<>>
    /\ pipe = <<>>
    /\ broken = FALSE
    /\ sent = 0
    /\ wire = <<>>
    /\ dispatched = <<>>
    /\ stderr = <<>>
    /\ closed = FALSE

\* log_formatted(logger_facility, message, prepend, append, timer, log_id):
\* out is the sequence of logger_facility(...) calls it makes
Format ==
    /\ op = "log_formatted"
    /\ ~formatted
    /\ \E gen \in GeneratedIds(call) : out' = log_formatted(call, gen)
    /\ formatted' = TRUE
    /\ written' = out'
    /\ UNCHANGED <<call, op, levels, target, eff, raised, fault>>
    /\ UNCHANGED <<collectorVars, concurrentVars, configVars, workerVars>>

NextFormat == Format

SpecFormat == InitFormat /\ [][NextFormat]_vars

-----------------------------------------------------------------------------
(* The level gate: GetLogger.level and the five emit operations (SpecEmit) *)

Root == "root"

\* the loggers of the model, in a dotted-name hierarchy under the root
Loggers == {Root, "luxon", "luxon.app"}

Parent(l) == IF l = "luxon.app" THEN "luxon" ELSE Root

\* a variant that skips the ancestors between a logger and the root
getEffectiveLevelRoot(lv, l) ==
    IF lv[l] # NOTSET THEN lv[l] ELSE lv[Root]

RECURSIVE getEffectiveLevel(_, _)
\* GetLogger.level (lines 359-361): Logger.getEffectiveLevel, the level of
\* the nearest logger up the hierarchy that has one, NOTSET if none has
getEffectiveLevel(lv, l) ==
    IF lv[l] # NOTSET THEN lv[l]
    ELSE IF l = Root THEN NOTSET
    ELSE getEffectiveLevel(lv, Parent(l))

Severities == {"critical", "error", "warning", "info", "debug"}

\* the logger method each emit operation hands to log_formatted (lines
\* 392, 409, 426, 443, 460) logs at this level
FacilityLevel(s) ==
    CASE s = "critical" -> CRITICAL
      [] s = "error" -> ERROR
      [] s = "warning" -> WARNING
      [] s = "info" -> INFO
      [] s = "debug" -> DEBUG

\* a variant with the slip of comparing warning() against logging.CRITICAL
GateLevelSlip(s) ==
    IF s = "warning" THEN CRITICAL ELSE FacilityLevel(s)

\* the constant each emit operation compares self.level with (lines 391,
\* 408, 425, 442, 459)
GateLevel(s) ==
    CASE s = "critical" -> CRITICAL
      [] s = "error" -> ERROR
      [] s = "warning" -> WARNING
      [] s = "info" -> INFO
      [] s = "debug" -> DEBUG

\* `if self.level <= logging.<SEVERITY>:`
Allowed(level, s) == level <= GateLevel(s)

\* Logger.<severity>(msg): the record goes to the handlers when the
\* logger is enabled for the level
Facility(level, s, lines) ==
    IF FacilityLevel(s) >= level THEN lines ELSE <<>>

\* the level arguments the model draws
LevelInputs ==
    {StrLevel(S_error_padded), StrLevel(S_10), StrLevel(S_bogus),
     IntLevel(INFO), IntLevel(NOTSET)}

EmitCalls ==
    {Call(m, p, NoText, NoTimer, NoText, NoContext) :
        m \in {Message(FALSE, <<>>), Message(TRUE, <<"h", "i", "\n">>)},
        p \in {NoText, Text(S_P)}}

\* logging.getLogger(): the root logger's level is WARNING, every other
\* logger's is NOTSET
InitEmit ==
    /\ levels = [l \in Loggers |-> IF l = Root THEN WARNING ELSE NOTSET]
    /\ call = NoCall
    /\ op = "none"
    /\ target = Root
    /\ eff = WARNING
    /\ out = <<>>
    /\ written = <<>>
    /\ formatted = FALSE
    /\ raised = FALSE
    /\ fault = "none"
    /\ loggerDict = <<>>
    /\ handlersOf = <<>>
    /\ mp = 0
    /\ lastCall = 0
    /\ logger = 0
    /\ cfg = 0
    /\ emit = 0
    /\ mainRunning = FALSE
    /\ logThread = 0
    /\ proc = <<>>
    /\ pipe = <<>>
    /\ broken = FALSE
    /\ sent = 0
    /\ wire = <<>>
    /\ dispatched = <<>>
    /\ stderr = <<>>
    /\ closed = FALSE

\* GetLogger.level = level (lines 363-365)
SetLevel(l, level) ==
    /\ LET r == set_level(levels[l], level)
       IN  /\ levels' = [levels EXCEPT ![l] = r.level]
           /\ raised' = r.raised
    /\ fault' = "none"
    /\ op' = "set_level"
    /\ target' = l
    /\ eff' = getEffectiveLevel(levels', l)
    /\ call' = NoCall
    /\ out' = <<>>
    /\ written' = <<>>
    /\ formatted' = FALSE
    /\ UNCHANGED <<collectorVars, concurrentVars, configVars, workerVars>>

\* what may fail while an emit operation runs: the request-context lookup
\* (lines 69-75), the normalisation of the message (line 79), the
\* formatting of the duration (line 83), a sink's write, the send on the
\* transport
Faults == {"none", "context", "normalise", "duration", "sink", "send"}

\* log_formatted raises: lines 68-77 catch NoContextError (and the id's
\* NotImplementedError) and nothing else, lines 79 and 83 are in no try,
\* and line 83 runs for a non-empty message with a timer
Raises(c, f) ==
    \/ f = "context"
    \/ f = "normalise"
    \/ /\ f = "duration"
       /\ Strip(IfBytesToUnicode(c.msg)) # <<>>
       /\ ~c.timer.none

\* logger_facility(msg), lines 99-122: a handler whose write or send
\* fails reports it itself (Handler.handleError) and the line is lost
Delivered(f, lines) ==
    IF f \in {"sink", "send"} THEN <<>> ELSE lines

\* one of GetLogger.critical/error/warning/info/debug on logger l, while
\* f fails
EmitOp(s, l, c, f) ==
    /\ op' = s
    /\ target' = l
    /\ call' = c
    /\ fault' = f
    /\ eff' = getEffectiveLevel(levels, l)
    /\ IF Allowed(getEffectiveLevel(levels, l), s)
       THEN /\ formatted' = TRUE
            /\ raised' = Raises(c, f)
            /\ IF Raises(c, f)
               THEN out' = <<>>
               ELSE \E gen \in GeneratedIds(c) :
                        out' = log_formatted(c, gen)
            /\ written' =
                   Delivered(f, Facility(getEffectiveLevel(levels, l), s,
                                         out'))
       ELSE /\ formatted' = FALSE
            /\ raised' = FALSE
            /\ out' = <<>>
            /\ written' = <<>>
    /\ UNCHANGED levels
    /\ UNCHANGED <<collectorVars, concurrentVars, configVars, workerVars>>

\* lines 377-393
critical(l, c, f) == EmitOp("critical", l, c, f)

\* lines 395-410
error(l, c, f) == EmitOp("error", l, c, f)

\* lines 412-427
warning(l, c, f) == EmitOp("warning", l, c, f)

\* lines 429-444
info(l, c, f) == EmitOp("info", l, c, f)

\* lines 446-461
debug(l, c, f) == EmitOp("debug", l, c, f)

NextEmit ==
    \/ \E l \in Loggers, level \in LevelInputs : SetLevel(l, level)
    \/ \E l \in Loggers, c \in EmitCalls : critical(l, c, "none")
    \/ \E l \in Loggers, c \in EmitCalls : error(l, c, "none")
    \/ \E l \in Loggers, c \in EmitCalls : warning(l, c, "none")
    \/ \E l \in Loggers, c \in EmitCalls : info(l, c, "none")
    \/ \E l \in Loggers, c \in EmitCalls : debug(l, c, "none")

SpecEmit == InitEmit /\ [][NextEmit]_vars

-----------------------------------------------------------------------------
(* The emit operations while something on their path fails (SpecFault)     *)

\* the calls drawn: an empty message, a message, a message with a timer
FaultCalls ==
    {Call(Message(FALSE, <<>>), NoText, NoText, Timer(12), NoText, NoContext),
     Call(Message(FALSE, <<"h", "i">>), NoText, NoText, NoTimer, NoText,
          NoContext),
     Call(Message(TRUE, <<"h", "i", "\n">>), Text(S_P), NoText, Timer(12),
          NoText, NoContext)}

\* the root logger's level: the default WARNING, or set to DEBUG or ERROR
FaultLevels == {WARNING, DEBUG, ERROR}

InitFault ==
    /\ \E lv \in FaultLevels :
           levels = [l \in Loggers |-> IF l = Root THEN lv ELSE NOTSET]
    /\ call = NoCall
    /\ op = "none"
    /\ target = Root
    /\ eff = levels[Root]
    /\ out = <<>>
    /\ written = <<>>
    /\ formatted = FALSE
    /\ raised = FALSE
    /\ fault = "none"
    /\ loggerDict = <<>>
    /\ handlersOf = <<>>
    /\ mp = 0
    /\ lastCall = 0
    /\ logger = 0
    /\ cfg = 0
    /\ emit = 0
    /\ mainRunning = FALSE
    /\ logThread = 0
    /\ proc = <<>>
    /\ pipe = <<>>
    /\ broken = FALSE
    /\ sent = 0
    /\ wire = <<>>
    /\ dispatched = <<>>
    /\ stderr = <<>>
    /\ closed = FALSE

NextFault ==
    \/ \E l \in Loggers, c \in FaultCalls, f \in Faults : critical(l, c, f)
    \/ \E l \in Loggers, c \in FaultCalls, f \in Faults : error(l, c, f)
    \/ \E l \in Loggers, c \in FaultCalls, f \in Faults : warning(l, c, f)
    \/ \E l \in Loggers, c \in FaultCalls, f \in Faults : info(l, c, f)
    \/ \E l \in Loggers, c \in FaultCalls, f \in Faults : debug(l, c, f)

SpecFault == InitFault /\ [][NextFault]_vars

-----------------------------------------------------------------------------
(* Claims about the Collector and the transport (under SpecCollector).     *)

\* the collector is in its receive loop: at the call of queue.get() or
\* between that call and the dispatch of the record it returned
InLoop(p) == proc[p].pc \in {"get", "dispatch"}

\* C1: once a collector received the shutdown sentinel (None) its receive
\* loop has terminated: it is not at another queue.get() call and holds no
\* record to dispatch.
C1_SentinelEndsLoop ==
    \A p \in Pids : proc[p].sawNone => ~InLoop(p)

\* C2: once queue.get() failed on a broken transport, the collector has
\* reported the failure on stderr and its loop has exited: it is not calling
\* queue.get() again.
C2_BrokenTransportEndsLoop ==
    \A p \in Pids :
        proc[p].sawBroken =>
            /\ \E k \in DOMAIN stderr :
                   stderr[k] = Report(p, "transport", 0)
            /\ ~InLoop(p)

\* the step is collector p finishing lines 313-316 for the record in hand
\* (not a cancellation, not the process being killed)
DispatchStep(p) ==
    /\ proc[p].pc = "dispatch"
    /\ proc'[p].pc \notin {"dispatch", "killed"}
    /\ ~proc'[p].cancelled

\* C3: a failure while processing one received record writes exactly one
\* report for that record on stderr and leaves the collector in its loop,
\* back at queue.get(); and a valid record is dispatched, exactly once, also
\* by a collector that has reported bad records before.
C3_BadRecordDoesNotStop ==
    [][\A p \in Pids :
         DispatchStep(p) =>
            IF proc[p].rec.kind = "valid"
            THEN /\ dispatched' =
                       Append(dispatched, [pid |-> p, id |-> proc[p].rec.id])
                 /\ stderr' = stderr
                 /\ proc'[p].pc = "get"
            ELSE /\ stderr' =
                       Append(stderr, Report(p, "record", proc[p].rec.id))
                 /\ dispatched' = dispatched
                 /\ proc'[p].pc = "get"]_vars

\* a collector reported a malformed record and afterwards dispatched a
\* later, valid record
C3_Witness ==
    \E p \in Pids, k \in DOMAIN stderr, d \in DOMAIN dispatched :
        /\ stderr[k] = Report(p, "record", stderr[k].id)
        /\ dispatched[d].pid = p
        /\ dispatched[d].id > stderr[k].id

\* C4: at most one execution context reads the consumer endpoint.
C4_SingleConsumer ==
    Cardinality({p \in Pids : InLoop(p)}) <= 1

\* C6: after close() (and until receive() is called again) no collector is
\* left running: none performs a further receive or dispatch.
C6_CloseStopsCollector ==
    closed => (mainRunning = FALSE /\ \A p \in Pids : ~Alive(p))

\* number of times record i was handed to the sinks
Dispatches(i) ==
    Cardinality({d \in DOMAIN dispatched : dispatched[d].id = i})

\* C7: delivery is at-most-once: every record is written to the transport
\* at most once (a lost record is never re-sent) and dispatched at most
\* once; a record that was lost is never dispatched.
C7_AtMostOnce ==
    \A i \in 1..MaxRecords :
        /\ wire[i] <= 1
        /\ Dispatches(i) <= wire[i]

\* one record was lost on the broken transport and another one, sent
\* before, was dispatched
C7_Witness ==
    \E i, j \in 1..MaxRecords :
        /\ j <= sent
        /\ wire[j] = 0
        /\ Dispatches(i) = 1

-----------------------------------------------------------------------------
(* Claims about configure (under SpecConcurrent).                          *)

\* C5: reconfiguring is atomic for a concurrent emit: once an emit is over
\* and no configure() call is under way, the handlers the emit dispatched
\* to are the full list bound before a configure() call that ran during it
\* or the full list bound after one (or, with no such call, the list bound
\* when it started).
C5_ConfigureAtomic ==
    (emit.pc = "done" /\ ~emit.pending) => emit.seen \in emit.cands

-----------------------------------------------------------------------------
(* Claims about the level gate and the formatter.                          *)

\* C8: for every logger and each of the five severities s, an emit
\* operation for s called while s is below the logger's effective level
\* hands no line to the logger, writes nothing to a sink and never enters
\* log_formatted.
C8_GateBeforeFormatting ==
    (op \in Severities /\ FacilityLevel(op) < eff) =>
        (out = <<>> /\ written = <<>> /\ ~formatted)

\* info() on a logger that inherits ERROR, with a message that would
\* format to a line
C8_Witness ==
    /\ op = "info"
    /\ target = "luxon.app"
    /\ levels["luxon.app"] = NOTSET
    /\ eff = ERROR
    /\ call.msg.s # <<>>
    /\ out = <<>>
    /\ ~formatted

\* the chunks the stripped text of the call's message splits into
ChunkCount == Len(MessageChunks(call.msg, call.timer))

\* the position of the first c of a text that has one
FirstOf(line, c) ==
    CHOOSE k \in DOMAIN line :
        line[k] = c /\ \A j \in 1..(k - 1) : line[j] # c

\* the position of the first ")" of a rendered line
FirstClose(line) == FirstOf(line, ")")

\* the correlation id of a rendered line: what stands between its leading
\* "(" and the first ")"
IdOf(line) == SubSeq(line, 2, FirstClose(line) - 1)

\* the tag of a rendered line: the word after "(id) "
TagOf(line) ==
    LET rest == SubSeq(line, FirstClose(line) + 2, Len(line))
        stop == IF IsIn(rest, " ") THEN FirstOf(rest, " ") - 1 ELSE Len(rest)
    IN  SubSeq(rest, 1, stop)

\* C9: a message whose stripped text splits into N > 1 chunks yields
\* exactly N lines, plus a lead line iff prepend is supplied, plus a
\* trailing line iff append is supplied; the lead line is tagged #0, the
\* chunk lines are numbered 1..N in order and the trailing line is tagged
\* #(N+1).
C9_ChunkedLines ==
    (op = "log_formatted" /\ formatted /\ ChunkCount > 1) =>
        LET N == ChunkCount
            lead == IF call.prepend.none THEN 0 ELSE 1
            trail == IF call.append.none THEN 0 ELSE 1
        IN  /\ Len(out) = N + lead + trail
            /\ lead = 1 => TagOf(out[1]) = <<"#", "0">>
            /\ \A k \in 1..N : TagOf(out[lead + k]) = Dec(k) \o <<"#">>
            /\ trail = 1 => TagOf(out[Len(out)]) = <<"#">> \o Dec(N + 1)

\* a message of three chunks with prepend and append: five lines
C9_Witness ==
    /\ op = "log_formatted"
    /\ formatted
    /\ ChunkCount = 3
    /\ ~call.prepend.none
    /\ ~call.append.none
    /\ Len(out) = 5

\* C10: every line of a multi-chunk batch (lead, chunks, trailing) carries
\* the same correlation id: the caller's id when one is given, otherwise
\* one id of exactly 6 alphanumeric characters.
C10_OneCorrelationId ==
    (op = "log_formatted" /\ formatted /\ ChunkCount > 1) =>
        /\ \A i \in DOMAIN out :
               /\ out[i][1] = "("
               /\ IdOf(out[i]) = IdOf(out[1])
        /\ ~call.log_id.none => IdOf(out[1]) = call.log_id.s
        /\ call.log_id.none =>
               /\ Len(IdOf(out[1])) = 6
               /\ \A j \in 1..6 : IsAlnum(IdOf(out[1])[j])

\* a batch with lead and trailing lines whose id was generated
C10_Witness ==
    /\ op = "log_formatted"
    /\ formatted
    /\ ChunkCount > 1
    /\ call.log_id.none
    /\ ~call.prepend.none
    /\ ~call.append.none
    /\ Len(out) >= 4
    /\ Len(IdOf(out[Len(out)])) = 6

\* the text log_formatted splits: the stripped message, with the duration
\* when a timer is given
StrippedText ==
    LET m == Strip(call.msg.s)
    IN  IF m = <<>> \/ call.timer.none THEN m
        ELSE m \o S_DURATION \o Dec(call.timer.n) \o <<"s", ")">>

\* the input lines of the call
InputLines ==
    IF StrippedText = <<>> THEN <<>> ELSE list_of_lines(StrippedText)

\* ceil(L / 300)
FragmentsNeeded(L) == (L + 299) \div 300

RECURSIVE NeededUpTo(_, _)
\* the fragments the first j lines need
NeededUpTo(lines, j) ==
    IF j = 0 THEN 0
    ELSE NeededUpTo(lines, j - 1) + FragmentsNeeded(Len(lines[j]))

RECURSIVE Concat(_)
Concat(texts) ==
    IF texts = <<>> THEN <<>> ELSE Head(texts) \o Concat(Tail(texts))

\* a rendered line of the form "(id) k# fragment"
IsChunkLine(line) ==
    /\ line # <<>>
    /\ line[1] = "("
    /\ IsIn(line, ")")
    /\ TagOf(line) # <<>>
    /\ TagOf(line)[Len(TagOf(line))] = "#"

\* the fragment a chunk line carries: what follows "(id) k# "
FragmentOf(line) ==
    LET rest == SubSeq(line, FirstClose(line) + 2, Len(line))
    IN  SubSeq(rest, FirstOf(rest, " ") + 1, Len(rest))

\* the fragments of the chunk lines handed out, in order
Fragments ==
    LET ch == SelectSeq(out, IsChunkLine)
    IN  [i \in DOMAIN ch |-> FragmentOf(ch[i])]

Contains(line, sub) ==
    \E k \in 1..(Len(line) - Len(sub) + 1) :
        SubSeq(line, k, k + Len(sub) - 1) = sub

\* C11: chunking never truncates. Every fragment has at most 300
\* characters; the fragments of each input line, concatenated in the order
\* they are emitted, give back the line; a line of length L yields
\* ceil(L/300) fragments, all but the last of length 300. A message that
\* needs one fragment is rendered on one line that contains it whole.
C11_NoTruncation ==
    (op = "log_formatted" /\ formatted) =>
        LET lines == InputLines
            total == NeededUpTo(lines, Len(lines))
            fr == Fragments
        IN  /\ total > 1 =>
                /\ Len(fr) = total
                /\ \A i \in DOMAIN fr : Len(fr[i]) <= 300
                /\ \A j \in DOMAIN lines :
                       LET a == NeededUpTo(lines, j - 1)
                           n == FragmentsNeeded(Len(lines[j]))
                       IN  /\ Concat(SubSeq(fr, a + 1, a + n)) = lines[j]
                           /\ \A i \in (a + 1)..(a + n - 1) : Len(fr[i]) = 300
            /\ total = 1 =>
                /\ Len(out) = 1
                /\ \A j \in DOMAIN lines : Contains(out[1], lines[j])

\* the message of 650 characters: fragments of 300, 300 and 50
C11_Witness ==
    /\ op = "log_formatted"
    /\ formatted
    /\ Len(call.msg.s) = 650
    /\ call.timer.none
    /\ Len(Fragments) = 3
    /\ Len(Fragments[1]) = 300
    /\ Len(Fragments[2]) = 300
    /\ Len(Fragments[3]) = 50

\* a rendered line that opens with a correlation id "(id) "
StartsWithId(line, id) ==
    /\ Len(line) >= Len(id) + 3
    /\ SubSeq(line, 1, Len(id) + 3) = <<"(">> \o id \o <<")", " ">>

\* C12 as stated: a message that is a single line shorter than 300
\* characters yields exactly one line, which carries a correlation id only
\* if the caller supplied one.
C12_ShortMessageOneLine ==
    (/\ op = "log_formatted"
     /\ formatted
     /\ Strip(call.msg.s) # <<>>
     /\ ~IsIn(Strip(call.msg.s), "\n")
     /\ Len(Strip(call.msg.s)) < 300) =>
        /\ Len(out) = 1
        /\ call.log_id.none => out[1][1] # "("

\* C12 amended: a message whose stripped text, together with the duration
\* suffix when a duration is supplied, is a single line shorter than 300
\* characters yields exactly one line; the line opens with the caller's
\* correlation id if one was supplied and carries no id otherwise.
C12_ShortTextOneLine ==
    (/\ op = "log_formatted"
     /\ formatted
     /\ StrippedText # <<>>
     /\ ~IsIn(StrippedText, "\n")
     /\ Len(StrippedText) < 300) =>
        /\ Len(out) = 1
        /\ call.log_id.none => out[1][1] # "("
        /\ ~call.log_id.none => StartsWithId(out[1], call.log_id.s)

\* "hi" with a duration and no id: one line without an id
C12_Witness ==
    /\ op = "log_formatted"
    /\ formatted
    /\ Strip(call.msg.s) = <<"h", "i">>
    /\ ~call.timer.none
    /\ call.log_id.none
    /\ Len(out) = 1
    /\ out[1][1] # "("

\* the fields of the single line that are present and not empty, in order
PresentFields ==
    LET fields == << IF call.log_id.none THEN <<>>
                     ELSE <<"(">> \o call.log_id.s \o <<")">>,
                     IF call.prepend.none THEN <<>> ELSE call.prepend.s,
                     StrippedText,
                     IF call.append.none THEN <<>> ELSE call.append.s,
                     RequestText(call.ctx) >>
        NotEmpty(f) == f # <<>>
    IN  SelectSeq(fields, NotEmpty)

\* C13: in the single-line case the rendered line is the present fields
\* among correlation id, prepend, message, append and request context, in
\* that order, separated by exactly one space, absent or empty fields
\* omitted (no leading, trailing or doubled space).
C13_SingleSpaces ==
    (/\ op = "log_formatted"
     /\ formatted
     /\ NeededUpTo(InputLines, Len(InputLines)) = 1) =>
        /\ Len(out) = 1
        /\ out[1] = JoinSpace(PresentFields)

\* C14: a message that is empty after normalisation and stripping yields
\* zero lines and no error, whatever prepend, append, duration and
\* correlation id are supplied.
C14_EmptyMessageNoLines ==
    (op = "log_formatted" /\ formatted /\ Strip(call.msg.s) = <<>>) =>
        (out = <<>> /\ written = <<>> /\ ~raised)

\* a message of whitespace only, with every optional argument supplied
C14_Witness ==
    /\ op = "log_formatted"
    /\ formatted
    /\ call.msg.s # <<>>
    /\ Strip(call.msg.s) = <<>>
    /\ ~call.timer.none
    /\ ~call.log_id.none
    /\ ~call.prepend.none
    /\ call.prepend.s # <<>>
    /\ ~call.append.none
    /\ out = <<>>

\* C15: no failure on the emit path reaches the caller: each of the five
\* emit operations returns normally whatever fails during request-context
\* lookup, message normalisation, duration formatting, sink write or
\* transport send.
C15_EmitNeverRaises ==
    op \in Severities => ~raised

-----------------------------------------------------------------------------
(* Claims about configure and set_level.                                   *)

\* the sinks a section requests: stdout iff log_stdout is true, syslog iff
\* log_server is set, file iff log_file is set
RequestedSinks(sec) ==
    (IF sec.log_stdout THEN <<"stdout">> ELSE <<>>)
    \o (IF sec.log_server # NoName THEN <<"syslog">> ELSE <<>>)
    \o (IF sec.log_file # NoName THEN <<"file">> ELSE <<>>)

\* C16: after configure() has been called for a logger with a section that
\* is present in the configuration and has returned, the logger's sinks are
\* exactly those the section requests and no sink bound before the call
\* remains; a logger that had a file sink has none after it is configured
\* with an empty section.
C16_SinksAsRequested ==
    (lastCall.op = "configure" /\ lastCall.sec.present /\ ~lastCall.raised)
        => Bindings(logger.handlers) = RequestedSinks(lastCall.sec)

\* a logger with a file sink configured with an empty section
C16_Witness ==
    /\ lastCall.op = "configure"
    /\ lastCall.sec.present
    /\ RequestedSinks(lastCall.sec) = <<>>
    /\ IsIn(lastCall.before, "file")
    /\ ~lastCall.raised
    /\ logger.handlers = <<>>

\* the kinds of a list of sinks, with the number of each
KindCounts(bs) ==
    [k \in {"stdout", "syslog", "file"} |->
        Cardinality({i \in DOMAIN bs : bs[i] = k})]

\* C17: configure is idempotent: calling it twice in a row with the same
\* section leaves the same sink bindings (same kinds, same count) as
\* calling it once, for a present section and for the absent 'application'
\* section.
C17_ConfigureIdempotent ==
    (lastCall.op = "configure" /\ lastCall.twice) =>
        KindCounts(Bindings(logger.handlers)) = KindCounts(lastCall.first)

\* C18: after configure() for the 'application' section of a configuration
\* that has no such section, the root logger has exactly one sink, a
\* stdout sink with the simple formatter, whatever handlers it had before.
C18_DefaultSingleStdout ==
    (/\ lastCall.op = "configure"
     /\ logger.name = "application"
     /\ ~lastCall.sec.present) =>
        /\ Len(logger.handlers) = 1
        /\ logger.handlers[1].kind = "stdout"
        /\ logger.handlers[1].fmt = "simple"

\* the name a level text stands for, if it is one of the five
NamedLevel(s) ==
    LET name == Strip(Upper(s))
    IN  CASE name = <<"C", "R", "I", "T", "I", "C", "A", "L">> -> 50
          [] name = <<"E", "R", "R", "O", "R">> -> 40
          [] name = <<"W", "A", "R", "N", "I", "N", "G">> -> 30
          [] name = <<"I", "N", "F", "O">> -> 20
          [] name = <<"D", "E", "B", "U", "G">> -> 10
          [] OTHER -> -1

\* a level argument that is neither a number nor one of the five names
InvalidLevel(level) ==
    /\ level.t = "str"
    /\ ~IntOfStr(level.s).ok
    /\ NamedLevel(level.s) = -1

\* C19: set_level accepts a numeric rank or one of the names CRITICAL,
\* ERROR, WARNING, INFO, DEBUG in any letter case and with surrounding
\* whitespace and sets the logger to that level; every other value fails
\* with an invalid-level error whose message names the logger.
C19_SetLevelValues ==
    lastCall.op = "level" =>
        LET a == lastCall.arg
        IN  /\ a.t = "int" =>
                (~lastCall.raised /\ logger.level = a.n)
            /\ (a.t = "str" /\ IntOfStr(a.s).ok) =>
                (~lastCall.raised /\ logger.level = IntOfStr(a.s).v)
            /\ (a.t = "str" /\ NamedLevel(a.s) # -1) =>
                (~lastCall.raised /\ logger.level = NamedLevel(a.s))
            /\ InvalidLevel(a) =>
                /\ lastCall.raised
                /\ Contains(lastCall.error,
                            <<"'">> \o LoggerName(logger.name) \o <<"'">>)

\* a name in mixed case with a newline after it was accepted
C19_Witness ==
    /\ lastCall.op = "level"
    /\ lastCall.arg.s = <<"d", "E", "B", "U", "G", "\n">>
    /\ lastCall.levelBefore # DEBUG
    /\ logger.level = DEBUG
    /\ ~lastCall.raised

\* C20: when setting a level fails with an invalid-level error, through
\* the level setter or through configure, the call fails and the logger's
\* level is the same as before the call.
C20_InvalidLevelKeepsLevel ==
    (\/ lastCall.op = "level" /\ InvalidLevel(lastCall.arg)
     \/ /\ lastCall.op = "configure"
        /\ lastCall.sec.present
        /\ InvalidLevel(lastCall.sec.log_level)) =>
        (lastCall.raised /\ logger.level = lastCall.levelBefore)

\* configure with a level set_level rejects, on a logger whose level had
\* been set to ERROR
C20_Witness ==
    /\ lastCall.op = "configure"
    /\ lastCall.sec.log_level = StrLevel(S_bogus)
    /\ lastCall.raised
    /\ lastCall.levelBefore = ERROR
    /\ logger.level = ERROR

-----------------------------------------------------------------------------
(* Claims about level inheritance, MPLogger and the remaining ones.        *)

\* the level of the nearest ancestor of a sub-logger that has a level set,
\* the root's if none has
AncestorLevel(l) ==
    IF l = "luxon.app" /\ levels["luxon"] # NOTSET THEN levels["luxon"]
    ELSE levels[Root]

\* C21: a sub-logger with no explicit level reports, as its effective
\* level, the level of its nearest ancestor in the dotted-name hierarchy
\* that has a level set (the root if none), after any sequence of level
\* settings on the ancestors.
C21_LevelInherited ==
    (op # "none" /\ target # Root /\ levels[target] = NOTSET) =>
        eff = AncestorLevel(target)

\* luxon.app has no level, luxon is at ERROR and the root at DEBUG
C21_Witness ==
    /\ op \in Severities
    /\ target = "luxon.app"
    /\ levels["luxon.app"] = NOTSET
    /\ levels["luxon"] = ERROR
    /\ levels[Root] = DEBUG
    /\ eff = ERROR

\* what a Collector wrote to the fallback stream
ReportsOf(err, p) == SelectSeq(err, LAMBDA r : r.pid = p)

\* C24: if the privilege drop configured for the Collector fails, the
\* Collector reports the failure to the fallback stream and never enters
\* the receive phase: it performs no receive and dispatches no record.
C24_DropFailureNeverReceives ==
    \A p \in Pids :
        proc[p].dropFailed =>
            /\ proc[p].pc = "exit"
            /\ proc[p].rec = NoRecord
            /\ ~proc[p].sawNone
            /\ ~proc[p].sawBroken
            /\ ReportsOf(stderr, p) = <<Report(p, "switch", 0)>>
            /\ \A i \in DOMAIN dispatched : dispatched[i].pid # p

\* the privilege drop failed while a record was waiting on the transport
C24_Witness ==
    \E p \in Pids :
        /\ proc[p].dropFailed
        /\ proc[p].pc = "exit"
        /\ pipe # <<>>
        /\ ReportsOf(stderr, p) # <<>>

\* C25: KeyboardInterrupt or SystemExit raised while the Collector is
\* receiving or dispatching terminates the receive loop: the Collector
\* performs no receive after it and nothing is written to the fallback
\* stream for it.
C25_CancelEndsLoop ==
    [][\A p \in Pids :
          proc'[p].cancelled =>
              /\ proc'[p].pc = "exit"
              /\ proc'[p].rec = NoRecord
              /\ ReportsOf(stderr', p) = ReportsOf(stderr, p)]_vars

\* a cancelled Collector has stopped with a record still on the transport
C25_Witness ==
    \E p \in Pids :
        /\ proc[p].cancelled
        /\ proc[p].pc = "exit"
        /\ pipe # <<>>
        /\ ~broken

\* C26: the records one producer sent are dispatched in the order they
\* were sent (the lines of a correlation batch in increasing sequence
\* number), also while other producers send on the same transport.
C26_DispatchedInOrder ==
    \A i, j \in DOMAIN dispatched :
        i < j => dispatched[i].id < dispatched[j].id

\* C27: configure() with a section that is present and has no log_level
\* sets the root logger's level to WARNING and leaves the level any other
\* logger was given as it was.
C27_DefaultLevelRootOnly ==
    (/\ lastCall.op = "configure"
     /\ lastCall.sec.present
     /\ lastCall.sec.log_level = NoLevel) =>
        /\ ~lastCall.raised
        /\ logger.level = IF logger.name = "application" THEN WARNING
                          ELSE lastCall.levelBefore

\* a sub-logger set to level 15 keeps it through such a configure()
C27_Witness ==
    /\ lastCall.op = "configure"
    /\ lastCall.sec.present
    /\ lastCall.sec.log_level = NoLevel
    /\ logger.name = "luxon.app"
    /\ lastCall.levelBefore = 15
    /\ logger.level = 15

\* C29: configure() is all-or-nothing: when it fails because the section's
\* log_level is invalid, the logger's sink bindings are the ones it had
\* before the call.
C29_ConfigureAllOrNothing ==
    (lastCall.op = "configure" /\ lastCall.raised) =>
        Bindings(logger.handlers) = lastCall.before

\* C30: configure() for a section other than 'application' that the
\* configuration does not have changes nothing on the logger: the same
\* handlers with the same filters and formatters, and the same level.
C30_AbsentSectionNoChange ==
    [][(/\ lastCall'.op = "configure"
        /\ ~lastCall'.sec.present
        /\ logger.name # "application") =>
           (logger' = logger /\ ~lastCall'.raised)]_vars

\* a sub-logger with sinks and a level of its own after such a call
C30_Witness ==
    /\ lastCall.op = "configure"
    /\ ~lastCall.sec.present
    /\ logger.name = "luxon.app"
    /\ Len(logger.handlers) = 3
    /\ logger.level = ERROR
    /\ Bindings(logger.handlers) = lastCall.before
    /\ logger.level = lastCall.levelBefore

\* C23: every sink configure() attaches (stdout, syslog, file, and the
\* default stdout sink of the absent 'application' section) has the
\* context-enrichment filter installed, so that no record reaches a sink's
\* formatter without an application-name field.
C23_SinksEnrichRecords ==
    (/\ lastCall.op = "handle"
     /\ ~lastCall.raised
     /\ (lastCall.sec.present \/ logger.name = "application")) =>
        \A i \in DOMAIN logger.handlers :
            /\ logger.handlers[i].filters # <<>>
            /\ lastCall.seen[i].formatted => ~lastCall.seen[i].app_name.none

-----------------------------------------------------------------------------
(* MPLogger.__init__ in a process that has its loggers already, and a line *)
(* emitted on one of them afterwards (SpecWorker).                         *)

\* the names logging.Logger.manager.loggerDict can hold; the root logger
\* is not in it
DictNames == {"luxon", "luxon.app", "__main__"}

WorkerLoggers == {Root} \cup DictNames

\* logging.handlers.QueueHandler(queue), line 270
QueueHandler == Handler("queue", "none", <<>>, "")

\* logging.getLogger(name): the logger of that name is made if there is
\* none, and a parent that is missing is held as a PlaceHolder;
\* getLogger() without a name is the root logger
getLogger(dict, name) ==
    [n \in DictNames |->
        IF n = name THEN "Logger"
        ELSE IF name = "luxon.app" /\ n = "luxon" /\ dict[n] = "none"
        THEN "PlaceHolder"
        ELSE dict[n]]

\* a variant that leaves the sub-loggers their handlers
ClearSubLoggersSkip(dict, hs) == hs

\* lines 272-275: every Logger of loggerDict loses its handlers
ClearSubLoggers(dict, hs) ==
    [l \in WorkerLoggers |->
        IF l \in DictNames /\ dict[l] = "Logger" THEN <<>> ELSE hs[l]]

\* a variant that looks for the endpoint after the handlers are replaced
mplogger_init_late(name, queue, dict, hs) ==
    IF name = "__main__"
    THEN [raised |-> FALSE, dict |-> getLogger(dict, name), handlers |-> hs]
    ELSE [raised |-> ~queue,
          dict |-> IF queue THEN getLogger(dict, name) ELSE dict,
          handlers |->
              ClearSubLoggers(dict, [hs EXCEPT ![Root] = <<QueueHandler>>])]

\* MPLogger.__init__(name, queue), lines 256-277; queue says whether an
\* endpoint was passed (`if not queue`)
mplogger_init(name, queue, dict, hs) ==
    IF name = "__main__"
    THEN [raised |-> FALSE, dict |-> getLogger(dict, name), handlers |-> hs]
    ELSE IF ~queue
    THEN [raised |-> TRUE, dict |-> dict, handlers |-> hs]
    ELSE [raised |-> FALSE, dict |-> getLogger(dict, name),
          handlers |->
              ClearSubLoggers(dict, [hs EXCEPT ![Root] = <<QueueHandler>>])]

\* the section of the configuration a logger is configured from
SectionOf(l) == IF l = Root THEN "application" ELSE l

\* GetLogger.configure(config), lines 367-375: the root logger and every
\* Logger of loggerDict, each from its own section
configure_all(config, dict, hs) ==
    [l \in WorkerLoggers |->
        IF (IF l = Root THEN TRUE ELSE dict[l] = "Logger")
        THEN configure(SectionOf(l), config[SectionOf(l)],
                       [name |-> SectionOf(l), handlers |-> hs[l],
                        level |-> WARNING]).handlers
        ELSE hs[l]]

\* the logger a record propagates to from l: the nearest ancestor that is
\* a Logger (a PlaceHolder is passed over)
WorkerParent(dict, l) ==
    IF l = "luxon.app" /\ dict["luxon"] = "Logger" THEN "luxon" ELSE Root

RECURSIVE Reached(_, _, _)
\* Logger.callHandlers from self.logger.<severity>(msg) (lines 377-461):
\* the handlers of the logger and of each ancestor up to the root
Reached(dict, hs, l) ==
    IF l = Root THEN hs[Root]
    ELSE hs[l] \o Reached(dict, hs, WorkerParent(dict, l))

\* how many of the handlers are of a kind
CountKind(hs, queue) ==
    Cardinality({i \in DOMAIN hs : (hs[i].kind = "queue") = queue})

\* the configurations of SpecWorker: each section is absent or asks for a
\* stdout and a file sink
WorkerSection ==
    Section(TRUE, NoName, NoLevel, TRUE, NoName, "/tmp/x.log", TRUE, FALSE)

WorkerConfigs ==
    {[n \in {"application"} \cup DictNames |->
         IF n \in present THEN WorkerSection ELSE AbsentSection] :
     present \in SUBSET {"application", "luxon", "luxon.app"}}

\* the names an MPLogger is constructed with
MPLoggerNames == {"__main__", "luxon.app"}

NoMP ==
    [op |-> "none", name |-> "", queue |-> FALSE, raised |-> FALSE,
     constructed |-> "none", made |-> {}, before |-> <<>>,
     dictBefore |-> <<>>, target |-> Root, sends |-> 0, local |-> 0]

\* a process before it has made any logger
InitWorker ==
    /\ loggerDict = [n \in DictNames |-> "none"]
    /\ handlersOf = [l \in WorkerLoggers |-> <<>>]
    /\ mp = NoMP
    /\ lastCall = 0
    /\ logger = 0
    /\ cfg = 0
    /\ emit = 0
    /\ mainRunning = FALSE
    /\ logThread = 0
    /\ proc = <<>>
    /\ pipe = <<>>
    /\ broken = FALSE
    /\ sent = 0
    /\ wire = <<>>
    /\ dispatched = <<>>
    /\ stderr = <<>>
    /\ closed = FALSE
    /\ levels = <<>>
    /\ op = "none"
    /\ target = ""
    /\ call = 0
    /\ eff = 0
    /\ out = <<>>
    /\ written = <<>>
    /\ formatted = FALSE
    /\ raised = FALSE
    /\ fault = "none"

\* GetLogger(name), lines 349-356, before the MPLogger is constructed; the
\* class is a NamedSingleton, so __init__ runs once for a name
NewGetLogger(l) ==
    /\ mp.constructed = "none"
    /\ l \notin mp.made
    /\ loggerDict' = getLogger(loggerDict, l)
    /\ handlersOf' =
           IF l = Root
           THEN [handlersOf EXCEPT
                    ![Root] = SetSimpleFormat(addHandler(@, DefaultHandler))]
           ELSE handlersOf
    /\ mp' = [mp EXCEPT !.op = "GetLogger", !.made = @ \cup {l}]
    /\ UNCHANGED <<collectorVars, concurrentVars, emitVars, configVars>>

\* GetLogger(...).configure(config), before the MPLogger is constructed
ConfigureAll(config) ==
    /\ mp.constructed = "none"
    /\ mp.made # {}
    /\ handlersOf' = configure_all(config, loggerDict, handlersOf)
    /\ mp' = [mp EXCEPT !.op = "configure"]
    /\ UNCHANGED loggerDict
    /\ UNCHANGED <<collectorVars, concurrentVars, emitVars, configVars>>

\* MPLogger(name, queue)
MPLoggerInit(name, queue) ==
    /\ mp.constructed = "none"
    /\ \E r \in {mplogger_init(name, queue, loggerDict, handlersOf)} :
           /\ loggerDict' = r.dict
           /\ handlersOf' = r.handlers
           /\ mp' = [mp EXCEPT
                        !.op = "init", !.name = name, !.queue = queue,
                        !.raised = r.raised,
                        !.constructed = IF r.raised THEN "none"
                                        ELSE IF name = "__main__"
                                        THEN "primary"
                                        ELSE "worker",
                        !.before = handlersOf,
                        !.dictBefore = loggerDict]
    /\ UNCHANGED <<collectorVars, concurrentVars, emitVars, configVars>>

\* a line emitted on a logger of the process: the handlers it reaches
WorkerEmit(l) ==
    /\ IF l = Root THEN TRUE ELSE loggerDict[l] = "Logger"
    /\ \E hs \in {Reached(loggerDict, handlersOf, l)} :
           mp' = [mp EXCEPT !.op = "emit", !.target = l,
                            !.sends = CountKind(hs, TRUE),
                            !.local = CountKind(hs, FALSE)]
    /\ UNCHANGED <<loggerDict, handlersOf>>
    /\ UNCHANGED <<collectorVars, concurrentVars, emitVars, configVars>>

NextWorker ==
    \/ \E l \in {Root, "luxon", "luxon.app"} : NewGetLogger(l)
    \/ \E config \in WorkerConfigs : ConfigureAll(config)
    \/ \E name \in MPLoggerNames : \E queue \in BOOLEAN :
           MPLoggerInit(name, queue)
    \/ \E l \in WorkerLoggers : WorkerEmit(l)

SpecWorker == InitWorker /\ [][NextWorker]_vars

\* C22: constructing an MPLogger for a process other than the primary
\* ("__main__") without a transport endpoint fails at construction, and
\* before any logger's handlers are modified: the root logger and the
\* sub-loggers have the handlers they had before the call.
C22_MissingQueueFailsFirst ==
    (mp.op = "init" /\ mp.name # "__main__" /\ ~mp.queue) =>
        /\ mp.raised
        /\ mp.constructed = "none"
        /\ handlersOf = mp.before
        /\ loggerDict = mp.dictBefore

\* the failed construction in a process whose root logger and sub-logger
\* have sinks
C22_Witness ==
    /\ mp.op = "init"
    /\ mp.name = "luxon.app"
    /\ ~mp.queue
    /\ mp.raised
    /\ Len(handlersOf[Root]) = 2
    /\ Len(handlersOf["luxon.app"]) = 2

\* C28: right after an MPLogger is constructed in a worker process with a
\* transport endpoint the root logger has exactly one handler, the
\* transport handler, and every logger that existed then has no handlers
\* of its own; each line emitted on such a logger is sent over the
\* transport exactly once and written to no local sink.
C28_WorkerSendsOnce ==
    (mp.constructed = "worker") =>
        /\ handlersOf[Root] = <<QueueHandler>>
        /\ \A l \in DictNames : handlersOf[l] = <<>>
        /\ (mp.op = "emit") => (mp.sends = 1 /\ mp.local = 0)

\* a line emitted on a sub-logger that had sinks of its own, as its parent
\* and the root logger had, before the MPLogger was constructed
C28_Witness ==
    /\ mp.constructed = "worker"
    /\ mp.op = "emit"
    /\ mp.target = "luxon.app"
    /\ loggerDict["luxon"] = "Logger"
    /\ Len(mp.before[Root]) = 2
    /\ Len(mp.before["luxon"]) = 2
    /\ Len(mp.before["luxon.app"]) = 2
    /\ mp.sends = 1
    /\ mp.local = 0

=============================================================================
